---- MODULE Spec2Model ----
(***************************************************************************)
(* Contacts REST API (web_home_work_14): the contacts table and its        *)
(* repository (src/repository/contacts.py), the contact routes             *)
(* (src/routes/contacts.py) and the token verifiers of the Auth service    *)
(* (src/services/auth.py).                                                 *)
(*                                                                         *)
(* A database row is a record; the contacts table is the set of its rows.  *)
(* A repository function whose query ends in .first() is modelled by the   *)
(* set of values the call can return (None, or any one matching row).      *)
(***************************************************************************)
EXTENDS Integers, Sequences, FiniteSets, TLC

\* ------------------------------------------------------------------ bounds
MaxId == 2          \* contact ids handed out by the contacts id sequence

\* ------------------------------------------------------------- input sets
UserEmails == {"u1@x.org", "u2@x.org"}
ContactEmails == {"a@x.org", "b@x.org"}
FirstNames == {"Alex", "Bob"}
LastNames == {"King"}
Phones == {"+380991234567"}

is_leap(year) == (year % 4 = 0 /\ year % 100 # 0) \/ year % 400 = 0

days_in_month(year, month) ==
    IF month = 2 THEN (IF is_leap(year) THEN 29 ELSE 28)
    ELSE IF month \in {4, 6, 9, 11} THEN 30 ELSE 31

Date(y, m, d) == [year |-> y, month |-> m, day |-> d]

\* the dates a contact's birthday is drawn from
Birthdays == {Date(1990, 1, 12), Date(1990, 1, 30)}

\* the values date.today() takes
Todays == {Date(2023, 1, 10), Date(2023, 1, 28), Date(2023, 12, 28),
           Date(2024, 2, 22)}

NoDate == Date(0, 0, 0)

\* ----------------------------------------------------------------- tokens
\* A bearer string as jwt.decode sees it: jwt = "valid" when the signature
\* verifies and exp is in the future, "badsig" when the signature (or the
\* encoding) is wrong, "expired" when exp has passed; scope and sub are the
\* payload's claims, "absent" when the payload has no such key.
Scopes == {"access_token", "refresh_token", "email_token"}

NoToken == [jwt |-> "missing", scope |-> "absent", sub |-> "absent"]

Tokens == [jwt : {"valid", "badsig", "expired"},
           scope : Scopes \cup {"absent"},
           sub : UserEmails \cup {"absent"}] \cup {NoToken}

\* ------------------------------------------------------------------- rows
None == [id |-> 0, first_name |-> "", last_name |-> "", email |-> "",
         phone |-> "", birthday |-> NoDate, user_id |-> 0]

\* Column(Boolean, default=False) of User.confirmed
confirmed_default_true == TRUE

confirmed_default == FALSE

NoUser == [id |-> 0, email |-> "", confirmed |-> FALSE,
           refresh_token |-> NoToken, avatar |-> "None"]

ContactModel == [first_name : FirstNames, last_name : LastNames,
                 email : ContactEmails, phone : Phones, birthday : Birthdays]

NoBody == [first_name |-> "", last_name |-> "", email |-> "", phone |-> "",
           birthday |-> NoDate]

VARIABLES
    users,          \* rows of table users
    contacts,       \* rows of table contacts
    contact_id_seq, \* last id handed out for a contact
    resp,           \* the last request and the answer it got
    inflight        \* per worker, the create-contact request it is serving

vars == <<users, contacts, contact_id_seq, resp, inflight>>


\* ------------------------------------------------------- services/auth.py
\* jwt.decode(token, SECRET_KEY, algorithms=[ALGORITHM]): the payload is
\* returned only for a token whose signature verifies and that has not
\* expired; every other token raises JWTError.
jwt_decode_ok(token) == token.jwt = "valid"

\* repository_users.get_user_by_email: the user rows with that email
get_user_by_email(email, db) == {u \in db : u.email = email}

\* Auth.get_current_user: the outcomes of the dependency, each either
\* status 401 (credentials_exception) or status 200 with the user row.
Unauthorized == [status |-> 401, user |-> NoUser]

get_current_user_anyscope(token, db) ==
    IF token = NoToken THEN {Unauthorized}
    ELSE IF ~jwt_decode_ok(token) THEN {Unauthorized}
    ELSE IF token.sub = "absent" THEN {Unauthorized}
    ELSE IF get_user_by_email(token.sub, db) = {} THEN {Unauthorized}
    ELSE {[status |-> 200, user |-> u] : u \in get_user_by_email(token.sub, db)}

get_current_user(token, db) ==
    IF token = NoToken THEN {Unauthorized}
    ELSE IF ~jwt_decode_ok(token) THEN {Unauthorized}
    ELSE IF token.scope = "access_token"
         THEN IF token.sub = "absent" THEN {Unauthorized}
              ELSE IF get_user_by_email(token.sub, db) = {} THEN {Unauthorized}
              ELSE {[status |-> 200, user |-> u] :
                        u \in get_user_by_email(token.sub, db)}
         ELSE {Unauthorized}

\* The data dict passed to the create_*_token methods: its 'sub' and, when
\* it has one, its 'scope' ("absent" when it has none).
NoData == [sub |-> "absent", scope |-> "absent"]

TokenData == [sub : UserEmails, scope : Scopes \cup {"absent"}]

\* exp of a token issued now: expires_delta = 0 stands for None (falsy, so
\* the default life applies); a negative delta puts exp in the past
issued(expires_delta) == IF expires_delta < 0 THEN "expired" ELSE "valid"

\* Auth.create_access_token: to_encode.update(...) overwrites 'scope'
create_access_token(data, expires_delta) ==
    [jwt |-> issued(expires_delta), scope |-> "access_token", sub |-> data.sub]

create_refresh_token_keepscope(data, expires_delta) ==
    [jwt |-> issued(expires_delta),
     scope |-> IF data.scope = "absent" THEN "refresh_token" ELSE data.scope,
     sub |-> data.sub]

\* Auth.create_refresh_token
create_refresh_token(data, expires_delta) ==
    [jwt |-> issued(expires_delta), scope |-> "refresh_token", sub |-> data.sub]

\* Auth.create_email_token
create_email_token(data) ==
    [jwt |-> "valid", scope |-> "email_token", sub |-> data.sub]

\* the refresh token the auth routes issue for an email
refresh_token_for(email) ==
    create_refresh_token([sub |-> email, scope |-> "absent"], 0)

\* Auth.decode_refresh_token: raise = 0 is a normal return of value;
\* raise = 401 is the HTTPException; raise = 500 is the KeyError of a
\* payload without 'scope' or 'sub', which no except clause catches.
Return(v) == [raise |-> 0, value |-> v]
Raise(code) == [raise |-> code, value |-> "None"]

decode_refresh_token_anyscope(refresh_token) ==
    IF ~jwt_decode_ok(refresh_token) THEN Raise(401)
    ELSE IF refresh_token.scope = "absent" THEN Raise(500)
    ELSE IF refresh_token.sub = "absent" THEN Raise(500)
    ELSE Return(refresh_token.sub)

decode_refresh_token(refresh_token) ==
    IF ~jwt_decode_ok(refresh_token) THEN Raise(401)
    ELSE IF refresh_token.scope = "absent" THEN Raise(500)
    ELSE IF refresh_token.scope = "refresh_token"
         THEN IF refresh_token.sub = "absent" THEN Raise(500)
              ELSE Return(refresh_token.sub)
         ELSE Raise(401)

\* Auth.get_email_from_token: a decoded payload of another scope falls out
\* of the if and the function ends without a return statement (None).
get_email_from_token(token) ==
    IF ~jwt_decode_ok(token) THEN Raise(422)
    ELSE IF token.scope = "absent" THEN Raise(500)
    ELSE IF token.scope = "email_token"
         THEN IF token.sub = "absent" THEN Raise(500)
              ELSE Return(token.sub)
         ELSE Return("None")

\* ---------------------------------------------------- repository/users.py
\* update_token: user.refresh_token = token
update_token(user, token, db) ==
    (db \ {user}) \cup {[user EXCEPT !.refresh_token = token]}

\* confirmed_email: the user with that email gets confirmed = True
confirmed_email(email, db) ==
    {IF u.email = email THEN [u EXCEPT !.confirmed = TRUE] ELSE u : u \in db}

\* update_avatar: the user with that email gets avatar = url
update_avatar(email, url, db) ==
    {IF u.email = email THEN [u EXCEPT !.avatar = url] ELSE u : u \in db}

\* ------------------------------------------------ repository/contacts.py
\* Query.first(): None for no row, else one of the rows
first(rows) == IF rows = {} THEN {None} ELSE rows

email_unchecked(db) == TRUE

\* Column(String, unique=True) on Contact.email: a commit that would leave
\* two rows with one email raises IntegrityError and stores nothing.
email_unique(db) ==
    \A c1 \in db : \A c2 \in db : c1.email = c2.email => c1.id = c2.id

Min(a, b) == IF a <= b THEN a ELSE b

\* the orders in which the database can return a set of rows
Orders(rows) ==
    {f \in [1..Cardinality(rows) -> rows] :
        \A i \in DOMAIN f : \A j \in DOMAIN f : f[i] = f[j] => i = j}

get_contacts_nooffset(limit, offset, user, db) ==
    LET rows == {c \in db : c.user_id = user.id}
    IN  {{f[i] : i \in 1..Min(limit, Cardinality(rows))} : f \in Orders(rows)}

\* the pages get_contacts can return (LIMIT limit OFFSET offset, no ORDER BY)
get_contacts(limit, offset, user, db) ==
    LET rows == {c \in db : c.user_id = user.id}
    IN  {{f[i] : i \in (offset + 1)..Min(offset + limit, Cardinality(rows))} :
            f \in Orders(rows)}

get_contact_by_id_unscoped(contact_id, user, db) ==
    first({c \in db : c.id = contact_id})

get_contact_by_id(contact_id, user, db) ==
    first({c \in db : c.user_id = user.id /\ c.id = contact_id})

get_contact_by_email(contact_email, user, db) ==
    first({c \in db : c.user_id = user.id /\ c.email = contact_email})

\* outcome of a writing function: what it returns, the table afterwards and
\* whether db.commit() raised
Outcome(ret, db, raised) == [ret |-> ret, db |-> db, raised |-> raised]

Row(id, body, user_id) ==
    [id |-> id, first_name |-> body.first_name, last_name |-> body.last_name,
     email |-> body.email, phone |-> body.phone, birthday |-> body.birthday,
     user_id |-> user_id]

create_contact_reused_id(body, user, db, seq) ==
    LET contact == Row(Cardinality(db) + 1, body, user.id)
    IN  IF email_unique(db \cup {contact})
        THEN Outcome(contact, db \cup {contact}, FALSE)
        ELSE Outcome(None, db, TRUE)

create_contact_unchecked(body, user, db, seq) ==
    LET contact == Row(seq + 1, body, user.id)
    IN  Outcome(contact, db \cup {contact}, FALSE)

create_contact(body, user, db, seq) ==
    LET contact == Row(seq + 1, body, user.id)
    IN  IF email_unique(db \cup {contact})
        THEN Outcome(contact, db \cup {contact}, FALSE)
        ELSE Outcome(None, db, TRUE)

update(contact_id, body, user, db) ==
    {IF contact # None
     THEN LET changed == Row(contact.id, body, contact.user_id)
              after == (db \ {contact}) \cup {changed}
          IN  IF email_unique(after) THEN Outcome(changed, after, FALSE)
              ELSE Outcome(None, db, TRUE)
     ELSE Outcome(None, db, FALSE) :
        contact \in get_contact_by_id(contact_id, user, db)}

remove_unscoped(contact_id, user, db) ==
    {IF contact # None THEN Outcome(contact, db \ {contact}, FALSE)
     ELSE Outcome(None, db, FALSE) :
        contact \in first({c \in db : c.id = contact_id})}

remove(contact_id, user, db) ==
    {IF contact # None THEN Outcome(contact, db \ {contact}, FALSE)
     ELSE Outcome(None, db, FALSE) :
        contact \in get_contact_by_id(contact_id, user, db)}

get_contact_by_first_name_unscoped(contact_first_name, user, db) ==
    {c \in db : c.first_name = contact_first_name}

get_contact_by_first_name(contact_first_name, user, db) ==
    {c \in db : c.user_id = user.id /\ c.first_name = contact_first_name}

get_contact_by_last_name_wrong_column(contact_last_name, user, db) ==
    {c \in db : c.user_id = user.id /\ c.first_name = contact_last_name}

get_contact_by_last_name(contact_last_name, user, db) ==
    {c \in db : c.user_id = user.id /\ c.last_name = contact_last_name}

\* date + timedelta(days=n)
RECURSIVE plus_days(_, _)
plus_days(d, n) ==
    IF n = 0 THEN d
    ELSE IF d.day < days_in_month(d.year, d.month)
         THEN plus_days(Date(d.year, d.month, d.day + 1), n - 1)
    ELSE IF d.month < 12 THEN plus_days(Date(d.year, d.month + 1, 1), n - 1)
    ELSE plus_days(Date(d.year + 1, 1, 1), n - 1)

get_birthday_full_dates(user, db, today) ==
    {c \in db :
        /\ c.user_id = user.id
        /\ \E k \in 0..7 : /\ plus_days(today, k).month = c.birthday.month
                           /\ plus_days(today, k).day = c.birthday.day}

get_birthday(user, db, today) ==
    LET next_week == plus_days(today, 7)
    IN  {c \in db : /\ c.user_id = user.id
                    /\ c.birthday.day >= today.day
                    /\ c.birthday.day <= next_week.day
                    /\ c.birthday.month = today.month}


\* ---------------------------------------------------------------- requests
\* resp records the last request (operation, bearer token, arguments) and
\* its answer (HTTP status, the authenticated caller, the rows returned).
\* Arguments and results a request does not have keep these defaults.
Req(op, token) ==
    [op |-> op, token |-> token, status |-> 0, caller |-> 0, id |-> 0,
     body |-> NoBody, today |-> NoDate, limit |-> 0, offset |-> 0,
     result |-> {}, value |-> "None", data |-> NoData]

\* no request is being served
Idle == Req("idle", NoToken)

\* the server processes that serve requests side by side, each with its own
\* database session on the one database
Workers == {1, 2}

Init ==
    /\ users = {}
    /\ contacts = {}
    /\ contact_id_seq = 0
    /\ resp = Idle
    /\ inflight = [w \in Workers |-> Idle]

\* the answer of a route whose get_current_user dependency raised
Answer401(op, token) ==
    /\ resp' = [Req(op, token) EXCEPT !.status = 401]
    /\ UNCHANGED <<users, contacts, contact_id_seq, inflight>>

\* signup of routes/auth.py with repository_users.create_user: a new user
\* row unless the email is taken (409)
signup(email) ==
    /\ resp = Idle
    /\ IF get_user_by_email(email, users) # {}
       THEN /\ resp' = [Req("signup", NoToken) EXCEPT
                            !.status = 409, !.value = email]
            /\ UNCHANGED <<users, contacts, contact_id_seq, inflight>>
       ELSE /\ users' = users \cup {[id |-> Cardinality(users) + 1,
                                      email |-> email,
                                      confirmed |-> confirmed_default,
                                      refresh_token |-> NoToken,
                                      avatar |-> "None"]}
            /\ resp' = [Req("signup", NoToken) EXCEPT
                            !.status = 201, !.value = email]
            /\ UNCHANGED <<contacts, contact_id_seq, inflight>>

\* routes/users.py read_users_me
read_users_me(token) ==
    /\ resp = Idle
    /\ \E auth \in get_current_user(token, users) :
        IF auth.status = 401 THEN Answer401("read_users_me", token)
        ELSE /\ resp' = [Req("read_users_me", token) EXCEPT
                            !.status = 200, !.caller = auth.user.id,
                            !.value = auth.user.email]
             /\ UNCHANGED <<users, contacts, contact_id_seq, inflight>>

\* PATCH /users/avatar: the uploaded image's URL is stored for the caller
update_avatar_user(token, url) ==
    /\ resp = Idle
    /\ \E auth \in get_current_user(token, users) :
        IF auth.status = 401 THEN Answer401("update_avatar_user", token)
        ELSE /\ users' = update_avatar(auth.user.email, url, users)
             /\ resp' = [Req("update_avatar_user", token) EXCEPT
                            !.status = 200, !.caller = auth.user.id,
                            !.value = auth.user.email]
             /\ UNCHANGED <<contacts, contact_id_seq, inflight>>

\* login of routes/auth.py: for a known email and a verified password the
\* user's refresh token is replaced by a new one
login(email, password_ok) ==
    /\ resp = Idle
    /\ \E user \in (IF get_user_by_email(email, users) = {} THEN {NoUser}
                    ELSE get_user_by_email(email, users)) :
        IF user = NoUser \/ ~password_ok
        THEN /\ resp' = [Req("login", NoToken) EXCEPT
                            !.status = 401, !.value = email]
             /\ UNCHANGED <<users, contacts, contact_id_seq, inflight>>
        ELSE /\ users' = update_token(user, refresh_token_for(email), users)
             /\ resp' = [Req("login", NoToken) EXCEPT
                            !.status = 200, !.caller = user.id,
                            !.value = email]
             /\ UNCHANGED <<contacts, contact_id_seq, inflight>>

\* refresh_token of routes/auth.py: the email of a verified refresh token
\* gets its stored refresh token replaced
refresh_token(token) ==
    LET out == decode_refresh_token(token)
    IN  /\ resp = Idle
        /\ IF out.raise # 0
           THEN /\ resp' = [Req("refresh_token", token) EXCEPT
                               !.status = out.raise]
                /\ UNCHANGED <<users, contacts, contact_id_seq, inflight>>
           ELSE IF get_user_by_email(out.value, users) = {}
           THEN /\ resp' = [Req("refresh_token", token) EXCEPT
                               !.status = 401, !.value = out.value]
                /\ UNCHANGED <<users, contacts, contact_id_seq, inflight>>
           ELSE \E user \in get_user_by_email(out.value, users) :
                /\ users' = update_token(user, refresh_token_for(out.value),
                                         users)
                /\ resp' = [Req("refresh_token", token) EXCEPT
                               !.status = 200, !.caller = user.id,
                               !.value = out.value]
                /\ UNCHANGED <<contacts, contact_id_seq, inflight>>

\* confirmed_email of routes/auth.py: the user named by a verified
\* confirmation token is marked confirmed
route_confirmed_email(token) ==
    LET out == get_email_from_token(token)
    IN  /\ resp = Idle
        /\ IF out.raise # 0
           THEN /\ resp' = [Req("confirmed_email", token) EXCEPT
                               !.status = out.raise]
                /\ UNCHANGED <<users, contacts, contact_id_seq, inflight>>
           ELSE IF get_user_by_email(out.value, users) = {}
           THEN /\ resp' = [Req("confirmed_email", token) EXCEPT
                               !.status = 400, !.value = out.value]
                /\ UNCHANGED <<users, contacts, contact_id_seq, inflight>>
           ELSE /\ users' = confirmed_email(out.value, users)
                /\ resp' = [Req("confirmed_email", token) EXCEPT
                               !.status = 200, !.value = out.value]
                /\ UNCHANGED <<contacts, contact_id_seq, inflight>>

\* a call of Auth.create_access_token
CreateAccessToken(data, expires_delta) ==
    /\ resp = Idle
    /\ resp' = [Req("create_access_token",
                    create_access_token(data, expires_delta))
                   EXCEPT !.data = data]
    /\ UNCHANGED <<users, contacts, contact_id_seq, inflight>>

\* a call of Auth.create_refresh_token
CreateRefreshToken(data, expires_delta) ==
    /\ resp = Idle
    /\ resp' = [Req("create_refresh_token",
                    create_refresh_token(data, expires_delta))
                   EXCEPT !.data = data]
    /\ UNCHANGED <<users, contacts, contact_id_seq, inflight>>

\* a call of Auth.create_email_token
CreateEmailToken(data) ==
    /\ resp = Idle
    /\ resp' = [Req("create_email_token", create_email_token(data))
                   EXCEPT !.data = data]
    /\ UNCHANGED <<users, contacts, contact_id_seq, inflight>>

\* a call of Auth.decode_refresh_token
DecodeRefreshToken(token) ==
    LET out == decode_refresh_token(token)
    IN  /\ resp = Idle
        /\ resp' = [Req("decode_refresh_token", token) EXCEPT
                       !.status = out.raise, !.value = out.value]
        /\ UNCHANGED <<users, contacts, contact_id_seq, inflight>>

\* a call of Auth.get_email_from_token
GetEmailFromToken(token) ==
    LET out == get_email_from_token(token)
    IN  /\ resp = Idle
        /\ resp' = [Req("get_email_from_token", token) EXCEPT
                       !.status = out.raise, !.value = out.value]
        /\ UNCHANGED <<users, contacts, contact_id_seq, inflight>>

\* ------------------------------------------------------ routes/contacts.py
\* the largest limit GET /contacts/ accepts
MaxLimit == 100

\* GET /contacts/
\* Query(10, le=100): a larger limit is answered 422 once the dependencies
\* are resolved.
route_get_contacts(token, limit, offset) ==
    /\ resp = Idle
    /\ \E auth \in get_current_user(token, users) :
        IF auth.status = 401 THEN Answer401("get_contacts", token)
        ELSE LET req == [Req("get_contacts", token) EXCEPT
                            !.caller = auth.user.id,
                            !.limit = limit, !.offset = offset]
             IN  IF limit > MaxLimit
                 THEN /\ resp' = [req EXCEPT !.status = 422]
                      /\ UNCHANGED <<users, contacts, contact_id_seq, inflight>>
                 ELSE \E page \in get_contacts(limit, offset, auth.user,
                                               contacts) :
                        /\ resp' = [req EXCEPT !.status = 200,
                                               !.result = page]
                        /\ UNCHANGED <<users, contacts, contact_id_seq, inflight>>

route_create_contact_nocheck(token, body) ==
    /\ resp = Idle
    /\ \E auth \in get_current_user(token, users) :
        IF auth.status = 401 THEN Answer401("create_contact", token)
        ELSE LET req == [Req("create_contact", token) EXCEPT
                            !.caller = auth.user.id, !.body = body]
                 out == create_contact(body, auth.user, contacts, contact_id_seq)
             IN  /\ contact_id_seq < MaxId
                 /\ contact_id_seq' = contact_id_seq + 1
                 /\ contacts' = out.db
                 /\ resp' = IF out.raised
                            THEN [req EXCEPT !.status = 500]
                            ELSE [req EXCEPT !.status = 201,
                                             !.result = {out.ret}]
                 /\ UNCHANGED <<users, inflight>>

\* POST /contacts/
\* The id of the new row is drawn from the table's id sequence before the
\* insert is checked, so an insert that raises IntegrityError uses an id up.
route_create_contact(token, body) ==
    /\ resp = Idle
    /\ \E auth \in get_current_user(token, users) :
        IF auth.status = 401 THEN Answer401("create_contact", token)
        ELSE \E contact \in get_contact_by_email(body.email, auth.user, contacts) :
            LET req == [Req("create_contact", token) EXCEPT
                           !.caller = auth.user.id, !.body = body]
            IN  IF contact # None
                THEN /\ resp' = [req EXCEPT !.status = 409]
                     /\ UNCHANGED <<users, contacts, contact_id_seq, inflight>>
                ELSE LET out == create_contact(body, auth.user, contacts,
                                               contact_id_seq)
                     IN  /\ contact_id_seq < MaxId
                         /\ contact_id_seq' = contact_id_seq + 1
                         /\ contacts' = out.db
                         /\ resp' = IF out.raised
                                    THEN [req EXCEPT !.status = 500]
                                    ELSE [req EXCEPT !.status = 201,
                                                     !.result = {out.ret}]
                         /\ UNCHANGED <<users, inflight>>

\* GET /contacts/birthday
search_contact_7_days_birthday(token, today) ==
    /\ resp = Idle
    /\ \E auth \in get_current_user(token, users) :
        IF auth.status = 401 THEN Answer401("get_birthday", token)
        ELSE LET found == get_birthday(auth.user, contacts, today)
                 req == [Req("get_birthday", token) EXCEPT
                            !.caller = auth.user.id, !.today = today]
             IN  /\ resp' = IF Cardinality(found) < 1
                            THEN [req EXCEPT !.status = 404]
                            ELSE [req EXCEPT !.status = 200, !.result = found]
                 /\ UNCHANGED <<users, contacts, contact_id_seq, inflight>>

\* GET /contacts/{contact_id}
get_contact(token, contact_id) ==
    /\ resp = Idle
    /\ \E auth \in get_current_user(token, users) :
        IF auth.status = 401 THEN Answer401("get_contact", token)
        ELSE \E contact \in get_contact_by_id(contact_id, auth.user, contacts) :
            LET req == [Req("get_contact", token) EXCEPT
                           !.caller = auth.user.id, !.id = contact_id]
            IN  /\ resp' = IF contact = None
                           THEN [req EXCEPT !.status = 404]
                           ELSE [req EXCEPT !.status = 200, !.result = {contact}]
                /\ UNCHANGED <<users, contacts, contact_id_seq, inflight>>

\* PUT /contacts/{contact_id}
update_contact(token, contact_id, body) ==
    /\ resp = Idle
    /\ \E auth \in get_current_user(token, users) :
        IF auth.status = 401 THEN Answer401("update", token)
        ELSE \E out \in update(contact_id, body, auth.user, contacts) :
            LET req == [Req("update", token) EXCEPT
                           !.caller = auth.user.id, !.id = contact_id,
                           !.body = body]
            IN  /\ contacts' = out.db
                /\ resp' = IF out.raised THEN [req EXCEPT !.status = 500]
                           ELSE IF out.ret = None
                           THEN [req EXCEPT !.status = 404]
                           ELSE [req EXCEPT !.status = 200, !.result = {out.ret}]
                /\ UNCHANGED <<users, contact_id_seq, inflight>>

\* DELETE /contacts/{contact_id}
remove_contact(token, contact_id) ==
    /\ resp = Idle
    /\ \E auth \in get_current_user(token, users) :
        IF auth.status = 401 THEN Answer401("remove", token)
        ELSE \E out \in remove(contact_id, auth.user, contacts) :
            LET req == [Req("remove", token) EXCEPT
                           !.caller = auth.user.id, !.id = contact_id]
            IN  /\ contacts' = out.db
                /\ resp' = IF out.ret = None
                           THEN [req EXCEPT !.status = 404]
                           ELSE [req EXCEPT !.status = 204, !.result = {out.ret}]
                /\ UNCHANGED <<users, contact_id_seq, inflight>>

\* GET /contacts/search/{contact_email}
search_contact_by_email(token, contact_email) ==
    /\ resp = Idle
    /\ \E auth \in get_current_user(token, users) :
        IF auth.status = 401 THEN Answer401("get_contact_by_email", token)
        ELSE \E contact \in get_contact_by_email(contact_email, auth.user, contacts) :
            LET req == [Req("get_contact_by_email", token) EXCEPT
                           !.caller = auth.user.id,
                           !.body = [NoBody EXCEPT !.email = contact_email]]
            IN  /\ resp' = IF contact = None
                           THEN [req EXCEPT !.status = 404]
                           ELSE [req EXCEPT !.status = 200, !.result = {contact}]
                /\ UNCHANGED <<users, contacts, contact_id_seq, inflight>>

\* GET /contacts/search/first_name/{contact_first_name}
search_contact_by_first_name(token, contact_first_name) ==
    /\ resp = Idle
    /\ \E auth \in get_current_user(token, users) :
        IF auth.status = 401 THEN Answer401("get_contact_by_first_name", token)
        ELSE LET found == get_contact_by_first_name(contact_first_name,
                                                    auth.user, contacts)
                 req == [Req("get_contact_by_first_name", token) EXCEPT
                            !.caller = auth.user.id,
                            !.body = [NoBody EXCEPT !.first_name = contact_first_name]]
             IN  /\ resp' = IF Cardinality(found) < 1
                            THEN [req EXCEPT !.status = 404]
                            ELSE [req EXCEPT !.status = 200, !.result = found]
                 /\ UNCHANGED <<users, contacts, contact_id_seq, inflight>>

\* GET /contacts/search/last_name/{contact_last_name}
search_contact_by_last_name(token, contact_last_name) ==
    /\ resp = Idle
    /\ \E auth \in get_current_user(token, users) :
        IF auth.status = 401 THEN Answer401("get_contact_by_last_name", token)
        ELSE LET found == get_contact_by_last_name(contact_last_name,
                                                   auth.user, contacts)
                 req == [Req("get_contact_by_last_name", token) EXCEPT
                            !.caller = auth.user.id,
                            !.body = [NoBody EXCEPT !.last_name = contact_last_name]]
             IN  /\ resp' = IF Cardinality(found) < 1
                            THEN [req EXCEPT !.status = 404]
                            ELSE [req EXCEPT !.status = 200, !.result = found]
                 /\ UNCHANGED <<users, contacts, contact_id_seq, inflight>>

\* the response is sent and the request ends
send_response ==
    /\ resp # Idle
    /\ resp' = Idle
    /\ UNCHANGED <<users, contacts, contact_id_seq, inflight>>

Limits == {1, 2, MaxLimit + 1}
Offsets == {0, 1}
ContactIds == 1..MaxId

\* the last names searched for: those of the bodies and one no contact has
SearchLastNames == LastNames \cup {"Lee"}

access_token(email) == [jwt |-> "valid", scope |-> "access_token", sub |-> email]

\* the bearer tokens the contact routes are called with: none, the access
\* token of each user email, an expired one and a refresh token used as a
\* bearer (AuthSpec runs get_current_user over every token)
RouteTokens ==
    {NoToken,
     [jwt |-> "valid", scope |-> "refresh_token", sub |-> "u1@x.org"],
     [jwt |-> "expired", scope |-> "access_token", sub |-> "u1@x.org"]}
        \cup {access_token(e) : e \in UserEmails}

\* users and contacts: signup and the contact routes
Next ==
    \/ \E email \in UserEmails : signup(email)
    \/ \E token \in RouteTokens, limit \in Limits, offset \in Offsets :
           route_get_contacts(token, limit, offset)
    \/ \E token \in RouteTokens, body \in ContactModel :
           route_create_contact(token, body)
    \/ \E token \in RouteTokens, today \in Todays :
           search_contact_7_days_birthday(token, today)
    \/ \E token \in RouteTokens, contact_id \in ContactIds :
           get_contact(token, contact_id)
    \/ \E token \in RouteTokens, contact_id \in ContactIds, body \in ContactModel :
           update_contact(token, contact_id, body)
    \/ \E token \in RouteTokens, contact_id \in ContactIds :
           remove_contact(token, contact_id)
    \/ \E token \in RouteTokens, contact_email \in ContactEmails :
           search_contact_by_email(token, contact_email)
    \/ \E token \in RouteTokens, contact_first_name \in FirstNames :
           search_contact_by_first_name(token, contact_first_name)
    \/ \E token \in RouteTokens, contact_last_name \in SearchLastNames :
           search_contact_by_last_name(token, contact_last_name)
    \/ send_response

Spec == Init /\ [][Next]_vars

\* expires_delta in seconds: None (0), an hour, and a delta in the past
ExpiresDeltas == {0, 3600, -60}

\* the URL the image host returns for an uploaded avatar
AvatarUrls == {"https://res.cloudinary.com/ContactsAPP/avatar"}

\* users and tokens: the auth and user routes and the token verifiers, over
\* every token
NextAuth ==
    \/ \E email \in UserEmails : signup(email)
    \/ \E token \in Tokens : read_users_me(token)
    \/ \E token \in Tokens \ {NoToken} : DecodeRefreshToken(token)
    \/ \E token \in Tokens \ {NoToken} : GetEmailFromToken(token)
    \/ \E data \in TokenData, expires_delta \in ExpiresDeltas :
           CreateAccessToken(data, expires_delta)
    \/ \E data \in TokenData, expires_delta \in ExpiresDeltas :
           CreateRefreshToken(data, expires_delta)
    \/ \E data \in TokenData : CreateEmailToken(data)
    \/ \E email \in UserEmails, password_ok \in BOOLEAN :
           login(email, password_ok)
    \/ \E token \in Tokens \ {NoToken} : refresh_token(token)
    \/ \E token \in Tokens \ {NoToken} : route_confirmed_email(token)
    \/ \E token \in Tokens, url \in AvatarUrls : update_avatar_user(token, url)
    \/ send_response

AuthSpec == Init /\ [][NextAuth]_vars


\* ------------------------------------ concurrent POST /contacts/ requests
\* Two server processes serve requests side by side. A request's handler
\* first awaits get_contact_by_email and later awaits create_contact, each
\* on its own session; what the other process commits in between is seen by
\* the INSERT but was not seen by the SELECT.

\* first step of routes create_contact on worker w: the get_current_user
\* dependency, then the get_contact_by_email check; status 0 is a request
\* that passed the check and has not inserted yet
route_create_contact_check(w, token, body) ==
    /\ inflight[w] = Idle
    /\ \E auth \in get_current_user(token, users) :
        IF auth.status = 401
        THEN inflight' = [inflight EXCEPT ![w] =
                 [Req("create_contact", token) EXCEPT !.status = 401]]
        ELSE \E contact \in get_contact_by_email(body.email, auth.user, contacts) :
            LET req == [Req("create_contact", token) EXCEPT
                           !.caller = auth.user.id, !.body = body]
            IN  inflight' = [inflight EXCEPT ![w] =
                    IF contact # None THEN [req EXCEPT !.status = 409]
                    ELSE req]
    /\ UNCHANGED <<users, contacts, contact_id_seq, resp>>

\* second step on worker w: repository create_contact on the table as it
\* is now; an IntegrityError of db.commit() is caught nowhere (500)
route_create_contact_insert(w) ==
    /\ inflight[w].op = "create_contact"
    /\ inflight[w].status = 0
    /\ contact_id_seq < MaxId
    /\ \E user \in {u \in users : u.id = inflight[w].caller} :
        LET req == inflight[w]
            out == create_contact(req.body, user, contacts, contact_id_seq)
        IN  /\ contact_id_seq' = contact_id_seq + 1
            /\ contacts' = out.db
            /\ inflight' = [inflight EXCEPT ![w] =
                   IF out.raised THEN [req EXCEPT !.status = 500]
                   ELSE [req EXCEPT !.status = 201, !.result = {out.ret}]]
    /\ UNCHANGED <<users, resp>>

\* worker w sends its response and is free for the next request
worker_send_response(w) ==
    /\ inflight[w] # Idle
    /\ inflight[w].status # 0
    /\ inflight' = [inflight EXCEPT ![w] = Idle]
    /\ UNCHANGED <<users, contacts, contact_id_seq, resp>>

\* both users have signed up, nothing is stored and both workers are free
ConcurrentInit ==
    /\ users = {[id |-> 1, email |-> "u1@x.org", confirmed |-> confirmed_default,
                 refresh_token |-> NoToken, avatar |-> "None"],
                [id |-> 2, email |-> "u2@x.org", confirmed |-> confirmed_default,
                 refresh_token |-> NoToken, avatar |-> "None"]}
    /\ contacts = {}
    /\ contact_id_seq = 0
    /\ resp = Idle
    /\ inflight = [w \in Workers |-> Idle]

NextConcurrent ==
    \/ \E w \in Workers, token \in RouteTokens, body \in ContactModel :
           route_create_contact_check(w, token, body)
    \/ \E w \in Workers : route_create_contact_insert(w)
    \/ \E w \in Workers : worker_send_response(w)

ConcurrentSpec == ConcurrentInit /\ [][NextConcurrent]_vars


\* ================================================================= claims
ReadOps == {"get_contacts", "get_contact", "get_contact_by_email",
            "get_contact_by_first_name", "get_contact_by_last_name",
            "get_birthday"}

\* C1: every contact a read operation of the contact repository returns to
\* user U is a stored contact whose user_id is U's id.
C1_ReadsScopedToCaller ==
    resp.op \in ReadOps =>
        \A c \in resp.result : c.user_id = resp.caller /\ c \in contacts

\* a search by first name answered with the caller's contact while another
\* user stores a contact with the same first name
C1_Witness ==
    /\ resp.op = "get_contact_by_first_name"
    /\ resp.result # {}
    /\ \E c \in contacts : /\ c.user_id # resp.caller
                           /\ c.first_name = resp.body.first_name

\* C2: a create request by U with the email of a contact U already owns is
\* answered 409 and leaves the stored contacts as they were.
C2_DuplicateEmailRejected ==
    [][(/\ resp'.op = "create_contact"
        /\ resp'.status # 401
        /\ \E c \in contacts : /\ c.user_id = resp'.caller
                               /\ c.email = resp'.body.email)
       => (resp'.status = 409 /\ contacts' = contacts)]_vars

C2_Witness ==
    /\ resp.op = "create_contact"
    /\ resp.status = 409
    /\ \E c \in contacts : c.user_id = resp.caller /\ c.email = resp.body.email

\* C3: an update or delete by U of an id that does not exist or belongs to
\* another user is answered 404, returns no contact and changes no stored
\* contact.
C3_MissingOrForeignIdNotFound ==
    [][(/\ resp'.op \in {"update", "remove"}
        /\ resp'.status # 401
        /\ ~\E c \in contacts : c.id = resp'.id /\ c.user_id = resp'.caller)
       => (/\ resp'.status = 404
           /\ resp'.result = {}
           /\ contacts' = contacts)]_vars

\* an update of another user's contact answered 404
C3_Witness ==
    /\ resp.op = "update"
    /\ resp.status = 404
    /\ \E c \in contacts : c.id = resp.id /\ c.user_id # resp.caller

\* C4: a validly signed, unexpired refresh token is answered 401 by
\* get_current_user, and a validly signed, unexpired access token is answered
\* 401 by decode_refresh_token.
C4_ScopesNotInterchangeable ==
    /\ (/\ resp.op = "read_users_me"
        /\ resp.token.jwt = "valid"
        /\ resp.token.scope = "refresh_token") => resp.status = 401
    /\ (/\ resp.op = "decode_refresh_token"
        /\ resp.token.jwt = "valid"
        /\ resp.token.scope = "access_token") => resp.status = 401

\* the refresh token of a registered user presented as a bearer token
C4_Witness ==
    /\ resp.op = "read_users_me"
    /\ resp.token.jwt = "valid"
    /\ resp.token.scope = "refresh_token"
    /\ \E u \in users : u.email = resp.token.sub

\* the tokens get_current_user is to accept
good_access_token(token, db) ==
    /\ token.jwt = "valid"
    /\ token.scope = "access_token"
    /\ token.sub # "absent"
    /\ \E u \in db : u.email = token.sub

\* C5: a protected route runs its handler, for the user whose email is the
\* token's sub, exactly when the bearer token is validly signed, unexpired,
\* of scope access_token, carries a sub and a user with that email exists;
\* otherwise the answer is 401 and the handler has no user and no result.
C5_CurrentUserOnlyForGoodToken ==
    resp.op = "read_users_me" =>
        /\ resp.status \in {200, 401}
        /\ resp.status = 200 <=> good_access_token(resp.token, users)
        /\ resp.status = 200 =>
              /\ resp.value = resp.token.sub
              /\ \E u \in users : u.id = resp.caller /\ u.email = resp.token.sub
        /\ resp.status = 401 => resp.caller = 0 /\ resp.value = "None"

\* an access token of an email that no user has, answered 401
C5_Witness ==
    /\ resp.op = "read_users_me"
    /\ resp.token.jwt = "valid"
    /\ resp.token.scope = "access_token"
    /\ resp.token.sub # "absent"
    /\ resp.status = 401
    /\ users # {}


\* C6: get_email_from_token raises 422 for every token that is not a validly
\* signed, unexpired token of scope email_token.
C6_EmailTokenVerifierRejects ==
    (/\ resp.op = "get_email_from_token"
     /\ ~(resp.token.jwt = "valid" /\ resp.token.scope = "email_token"))
        => resp.status = 422

\* C7: no user owns two distinct stored contacts with the same email.
C7_OneContactPerEmailPerUser ==
    \A c1 \in contacts : \A c2 \in contacts :
        (c1.user_id = c2.user_id /\ c1.email = c2.email) => c1.id = c2.id

\* an update of a contact the caller owns to the email of another contact
\* the caller owns, both still stored
C7_Witness ==
    /\ resp.op = "update"
    /\ \E c1 \in contacts : \E c2 \in contacts :
          /\ c1.user_id = resp.caller /\ c2.user_id = resp.caller
          /\ c1.id = resp.id /\ c2.id # resp.id
          /\ c2.email = resp.body.email

\* C8: no two stored contacts, of whatever owners, have the same email.
C8_EmailUniqueInTable ==
    \A c1 \in contacts : \A c2 \in contacts :
        c1.email = c2.email => c1.id = c2.id

\* a create with an email that a contact of another user holds
C8_Witness ==
    /\ resp.op = "create_contact"
    /\ resp.status # 401
    /\ \E c \in contacts : c.email = resp.body.email /\ c.user_id # resp.caller

\* C9: every stored contact is owned by one registered user; a new contact
\* is owned by the user whose create request stored it; no request changes
\* the user_id of a stored contact; and a contact is changed or deleted only
\* by an update or delete request of its owner for its id.
C9_OwnerFixed ==
    /\ [](\A c \in contacts : \E u \in users : u.id = c.user_id)
    /\ [][/\ \A c \in contacts :
                /\ \A d \in contacts' : d.id = c.id => d.user_id = c.user_id
                /\ c \notin contacts' =>
                      /\ resp'.op \in {"update", "remove"}
                      /\ resp'.caller = c.user_id
                      /\ resp'.id = c.id
          /\ \A d \in contacts' :
                (~\E c \in contacts : c.id = d.id) =>
                      /\ resp'.op = "create_contact"
                      /\ resp'.caller = d.user_id]_vars

\* a contact deleted by its owner while another user's contact is stored
C9_Witness ==
    /\ resp.op = "remove"
    /\ resp.status = 204
    /\ \A c \in resp.result : c.user_id = resp.caller
    /\ \E c \in contacts : c.user_id # resp.caller

\* the (month, day) pairs of today .. today + 7 days
next_7_days(today) ==
    {<<plus_days(today, k).month, plus_days(today, k).day>> : k \in 0..7}

\* C10: get_birthday(U) returns exactly the contacts of U whose birthday
\* (month and day) is one of the days today .. today + 7 days.
C10_BirthdayWithinNext7Days ==
    (resp.op = "get_birthday" /\ resp.status # 401) =>
        resp.result = {c \in contacts :
                          /\ c.user_id = resp.caller
                          /\ <<c.birthday.month, c.birthday.day>>
                                \in next_7_days(resp.today)}


\* C11: a create request by U with an email that no contact of U has is
\* answered 201 with a contact that has the body's fields and U as owner,
\* and storage gains exactly that contact.
C11_CreateSucceeds ==
    [][(/\ resp'.op = "create_contact"
        /\ resp'.status # 401
        /\ ~\E c \in contacts : /\ c.user_id = resp'.caller
                                /\ c.email = resp'.body.email)
       => (/\ resp'.status = 201
           /\ \E new \in resp'.result :
                 /\ resp'.result = {new}
                 /\ new = Row(new.id, resp'.body, resp'.caller)
                 /\ new \notin contacts
                 /\ contacts' = contacts \cup {new})]_vars

\* C12: an update request by U for a contact id U owns is answered with the
\* contact, which afterwards has the body's fields and its old id and
\* user_id, and no other stored contact changes.
C12_FullUpdate ==
    [][\A c \in contacts :
          (/\ resp'.op = "update"
           /\ resp'.status # 401
           /\ c.id = resp'.id
           /\ c.user_id = resp'.caller)
          => (/\ resp'.status = 200
              /\ resp'.result = {Row(c.id, resp'.body, c.user_id)}
              /\ contacts' = (contacts \ {c})
                                \cup {Row(c.id, resp'.body, c.user_id)})]_vars

\* C13: a delete request by U for a contact id U owns is answered 204 with
\* that contact and removes exactly it; an id that was handed out and is no
\* longer stored is never stored again, and every get, update or delete of it
\* is answered 404.
C13_DeleteRemovesExactlyIt ==
    [][/\ \A c \in contacts :
             (/\ resp'.op = "remove"
              /\ resp'.status # 401
              /\ c.id = resp'.id
              /\ c.user_id = resp'.caller)
             => (/\ resp'.status = 204
                 /\ resp'.result = {c}
                 /\ contacts' = contacts \ {c})
       /\ \A i \in 1..contact_id_seq :
             (~\E c \in contacts : c.id = i)
             => (/\ ~\E d \in contacts' : d.id = i
                 /\ (/\ resp'.op \in {"get_contact", "update", "remove"}
                     /\ resp'.status # 401
                     /\ resp'.id = i) => resp'.status = 404)]_vars

\* a get of id 1 after the only contact ever stored, id 1, was deleted
C13_Witness ==
    /\ contact_id_seq = 1
    /\ contacts = {}
    /\ resp.op = "get_contact"
    /\ resp.id = 1
    /\ resp.status = 404


Max(a, b) == IF a >= b THEN a ELSE b

\* C14: get_contacts(limit, offset, U) returns stored contacts of U only,
\* min(limit, max(n - offset, 0)) of them when U owns n contacts, and the
\* list route answers 422 instead of listing when limit is above 100.
C14_Pagination ==
    (resp.op = "get_contacts" /\ resp.status # 401) =>
        LET n == Cardinality({c \in contacts : c.user_id = resp.caller})
        IN  IF resp.limit > 100
            THEN resp.status = 422 /\ resp.result = {}
            ELSE /\ resp.status = 200
                 /\ \A c \in resp.result :
                       c \in contacts /\ c.user_id = resp.caller
                 /\ Cardinality(resp.result) <= resp.limit
                 /\ Cardinality(resp.result)
                       = Min(resp.limit, Max(n - resp.offset, 0))

\* the second page of size 1 of a caller who owns two contacts
C14_Witness ==
    /\ resp.op = "get_contacts"
    /\ resp.status = 200
    /\ resp.limit = 1
    /\ resp.offset = 1
    /\ Cardinality({c \in contacts : c.user_id = resp.caller}) = 2
    /\ Cardinality(resp.result) = 1


\* the caller's stored contacts that match the lookup request in resp
matching ==
    {c \in contacts :
        /\ c.user_id = resp.caller
        /\ CASE resp.op = "get_contact" -> c.id = resp.id
             [] resp.op = "get_contact_by_email" -> c.email = resp.body.email
             [] resp.op = "get_contact_by_first_name" ->
                    c.first_name = resp.body.first_name
             [] resp.op = "get_contact_by_last_name" ->
                    c.last_name = resp.body.last_name
             [] resp.op = "get_birthday" ->
                    /\ c.birthday.month = resp.today.month
                    /\ resp.today.day <= c.birthday.day
                    /\ c.birthday.day <= plus_days(resp.today, 7).day
             [] OTHER -> FALSE}

\* C15: a lookup route answers 404 exactly when no contact of the caller
\* matches, and otherwise 200 with all the caller's matching contacts (one
\* contact for get-by-id and search-by-email).
C15_NotFoundIffNoMatch ==
    (/\ resp.op \in {"get_contact", "get_contact_by_email",
                     "get_contact_by_first_name", "get_contact_by_last_name",
                     "get_birthday"}
     /\ resp.status # 401)
    => /\ resp.status = 404 <=> matching = {}
       /\ resp.status # 404 => (resp.status = 200 /\ resp.result = matching)
       /\ (resp.status # 404 /\ resp.op \in {"get_contact",
                                             "get_contact_by_email"})
             => Cardinality(resp.result) = 1

\* a search for a last name none of the caller's contacts has
C15_Witness ==
    /\ resp.op = "get_contact_by_last_name"
    /\ resp.status = 404
    /\ \E c \in contacts : c.user_id = resp.caller


\* C16: a new user is unconfirmed; a confirmation that succeeds for an email
\* makes that user confirmed; no operation makes a confirmed user
\* unconfirmed; and a user's flag changes only in a confirmation of that
\* user's own email.
C16_ConfirmedMonotonic ==
    [][/\ \A v \in users' :
             (~\E u \in users : u.id = v.id) => ~v.confirmed
       /\ \A u \in users : \E v \in users' :
             /\ v.id = u.id
             /\ v.email = u.email
             /\ u.confirmed => v.confirmed
             /\ v.confirmed # u.confirmed =>
                   (resp'.op = "confirmed_email" /\ resp'.value = u.email)
       /\ (resp'.op = "confirmed_email" /\ resp'.status = 200) =>
             \A v \in users' : v.email = resp'.value => v.confirmed]_vars

\* an avatar update of a confirmed user while another user is unconfirmed
C16_Witness ==
    /\ resp.op = "update_avatar_user"
    /\ resp.status = 200
    /\ \E u \in users : u.id = resp.caller /\ u.confirmed /\ u.avatar # "None"
    /\ \E u \in users : u.id # resp.caller /\ ~u.confirmed


\* C19: every issued token carries the scope of the method that issued it,
\* whatever 'scope' the data had, and until it expires a refresh token
\* decodes to its subject, an email token yields its subject, and an access
\* token resolves to the user with the subject's email.
C19_IssueVerifyRoundTrip ==
    /\ resp.op = "create_refresh_token" =>
          /\ resp.token.scope = "refresh_token"
          /\ resp.token.jwt = "valid" =>
                decode_refresh_token(resp.token) = Return(resp.data.sub)
    /\ resp.op = "create_email_token" =>
          /\ resp.token.scope = "email_token"
          /\ resp.token.jwt = "valid"
          /\ get_email_from_token(resp.token) = Return(resp.data.sub)
    /\ resp.op = "create_access_token" =>
          /\ resp.token.scope = "access_token"
          /\ (resp.token.jwt = "valid"
                /\ \E u \in users : u.email = resp.data.sub) =>
                /\ get_current_user(resp.token, users) # {}
                /\ \A auth \in get_current_user(resp.token, users) :
                      /\ auth.status = 200
                      /\ auth.user \in users
                      /\ auth.user.email = resp.data.sub

\* a refresh token issued from data that already had the scope of an access
\* token
C19_Witness ==
    /\ resp.op = "create_refresh_token"
    /\ resp.data.scope = "access_token"
    /\ resp.token.jwt = "valid"
    /\ \E u \in users : u.email = resp.data.sub


\* C17: get_birthday returns exactly the caller's contacts whose birthday is
\* in today's month with a day from today's day to the day of today + 7
\* days; hence it returns nothing whenever today + 7 days is in another
\* month.
C17_DayAndMonthOnly ==
    (resp.op = "get_birthday" /\ resp.status # 401) =>
        LET next_week == plus_days(resp.today, 7)
        IN  /\ resp.result =
                  {c \in contacts :
                      /\ c.user_id = resp.caller
                      /\ c.birthday.month = resp.today.month
                      /\ resp.today.day <= c.birthday.day
                      /\ c.birthday.day <= next_week.day}
            /\ next_week.month # resp.today.month =>
                  (resp.result = {} /\ resp.status = 404)

\* nothing found on 28 January for a caller with a birthday on 30 January
C17_Witness ==
    /\ resp.op = "get_birthday"
    /\ resp.status = 404
    /\ plus_days(resp.today, 7).month # resp.today.month
    /\ \E c \in contacts :
          /\ c.user_id = resp.caller
          /\ <<c.birthday.month, c.birthday.day>> \in next_7_days(resp.today)


\* the contacts of a table that a user owns
owned(user, db) == {c \in db : c.user_id = user.id}

\* What POST /contacts/ answers to user on table db, and the user's contacts
\* afterwards.
create_contact_answer(body, user, db, seq) ==
    {IF contact # None
     THEN [status |-> 409, result |-> {}, own |-> owned(user, db)]
     ELSE LET out == create_contact(body, user, db, seq)
          IN  IF out.raised
              THEN [status |-> 500, result |-> {}, own |-> owned(user, out.db)]
              ELSE [status |-> 201, result |-> {out.ret},
                    own |-> owned(user, out.db)] :
        contact \in get_contact_by_email(body.email, user, db)}

\* What PUT /contacts/{contact_id} answers to user on table db, and the
\* user's contacts afterwards.
update_contact_answer(contact_id, body, user, db) ==
    {IF out.raised
     THEN [status |-> 500, result |-> {}, own |-> owned(user, out.db)]
     ELSE IF out.ret = None
     THEN [status |-> 404, result |-> {}, own |-> owned(user, out.db)]
     ELSE [status |-> 200, result |-> {out.ret}, own |-> owned(user, out.db)] :
        out \in update(contact_id, body, user, db)}

\* What DELETE /contacts/{contact_id} answers to user on table db, and the
\* user's contacts afterwards.
remove_contact_answer(contact_id, user, db) ==
    {IF out.ret = None
     THEN [status |-> 404, result |-> {}, own |-> owned(user, out.db)]
     ELSE [status |-> 204, result |-> {out.ret}, own |-> owned(user, out.db)] :
        out \in remove(contact_id, user, db)}

\* C20: a request of user U is answered the same, and changes U's contacts
\* the same, on any two tables that hold the same contacts of U, whatever
\* contacts of other users they hold.
C20_TenantNonInterference ==
    \A user \in users :
        \A others \in SUBSET (contacts \ owned(user, contacts)) :
            LET alt == owned(user, contacts) \cup others
            IN  /\ \A body \in ContactModel :
                      create_contact_answer(body, user, contacts, contact_id_seq)
                        = create_contact_answer(body, user, alt, contact_id_seq)
                /\ \A contact_id \in ContactIds : \A body \in ContactModel :
                      update_contact_answer(contact_id, body, user, contacts)
                        = update_contact_answer(contact_id, body, user, alt)
                /\ \A contact_id \in ContactIds :
                      /\ remove_contact_answer(contact_id, user, contacts)
                            = remove_contact_answer(contact_id, user, alt)
                      /\ get_contact_by_id(contact_id, user, contacts)
                            = get_contact_by_id(contact_id, user, alt)
                /\ \A limit \in Limits : \A offset \in Offsets :
                      get_contacts(limit, offset, user, contacts)
                        = get_contacts(limit, offset, user, alt)
                /\ \A email \in ContactEmails :
                      get_contact_by_email(email, user, contacts)
                        = get_contact_by_email(email, user, alt)
                /\ \A name \in FirstNames :
                      get_contact_by_first_name(name, user, contacts)
                        = get_contact_by_first_name(name, user, alt)
                /\ \A name \in SearchLastNames :
                      get_contact_by_last_name(name, user, contacts)
                        = get_contact_by_last_name(name, user, alt)
                /\ \A today \in Todays :
                      get_birthday(user, contacts, today)
                        = get_birthday(user, alt, today)


\* C21: whenever both workers hold an answered create-contact request of the
\* same user with the same email, that user has at most one contact with
\* that email, and each of the two requests that stored no contact was
\* answered 409.
C21_ConcurrentCreateAnswered409 ==
    \A w1 \in Workers : \A w2 \in Workers \ {w1} :
        (/\ inflight[w1].op = "create_contact"
         /\ inflight[w2].op = "create_contact"
         /\ inflight[w1].caller # 0
         /\ inflight[w1].caller = inflight[w2].caller
         /\ inflight[w1].body.email = inflight[w2].body.email
         /\ inflight[w1].status # 0
         /\ inflight[w2].status # 0)
        => /\ Cardinality({c \in contacts :
                              /\ c.user_id = inflight[w1].caller
                              /\ c.email = inflight[w1].body.email}) <= 1
           /\ inflight[w1].result = {} => inflight[w1].status = 409


\* the answers a route gives for one row found by .first()
one_answer(contact) ==
    IF contact = None THEN [status |-> 404, result |-> {}]
    ELSE [status |-> 200, result |-> {contact}]

\* the answers a route gives for the rows found by .all()
all_answer(found) ==
    IF Cardinality(found) < 1 THEN [status |-> 404, result |-> {}]
    ELSE [status |-> 200, result |-> found]

\* What the read request req (its operation, bearer token and arguments)
\* can be answered on the tables us and db: every status and result the
\* route can produce for it.
read_answer(req, us, db) ==
    UNION {IF auth.status = 401 THEN {[status |-> 401, result |-> {}]}
           ELSE CASE req.op = "get_contacts" ->
                        IF req.limit > MaxLimit
                        THEN {[status |-> 422, result |-> {}]}
                        ELSE {[status |-> 200, result |-> page] :
                                 page \in get_contacts(req.limit, req.offset,
                                                       auth.user, db)}
                  [] req.op = "get_contact" ->
                        {one_answer(c) :
                            c \in get_contact_by_id(req.id, auth.user, db)}
                  [] req.op = "get_contact_by_email" ->
                        {one_answer(c) :
                            c \in get_contact_by_email(req.body.email,
                                                       auth.user, db)}
                  [] req.op = "get_contact_by_first_name" ->
                        {all_answer(get_contact_by_first_name(
                                        req.body.first_name, auth.user, db))}
                  [] req.op = "get_contact_by_last_name" ->
                        {all_answer(get_contact_by_last_name(
                                        req.body.last_name, auth.user, db))}
                  [] req.op = "get_birthday" ->
                        {all_answer(get_birthday(auth.user, db, req.today))} :
              auth \in get_current_user(req.token, us)}

\* C22: a read request (list, get by id, get by email, search by first
\* name, search by last name, upcoming birthdays), answered 200 or 404 or
\* otherwise, leaves the stored contacts and users as they were, and the
\* answer it got is the only answer that request can get on the unchanged
\* tables: repeating it returns the same result.
C22_ReadsArePure ==
    [][(resp = Idle /\ resp'.op \in ReadOps)
       => /\ contacts' = contacts
          /\ users' = users
          /\ contact_id_seq' = contact_id_seq
          /\ \A again \in read_answer(resp', users', contacts') :
                again.status = resp'.status /\ again.result = resp'.result]_vars

====
